---- MODULE Spec2Model ----
(***************************************************************************)
(* State-machine model of mongo-audit's AuditManager                       *)
(* (src/src/auditManager.js): initialize / ensurePreImageEnabled /         *)
(* canRunCollMod / start / the per-change handler / createAuditDoc,        *)
(* together with the collaborators the code calls: the MongoDB server      *)
(* (commands, change streams, insertOne) and the Node.js runtime (event    *)
(* emitter, promise rejections).                                           *)
(***************************************************************************)
EXTENDS Integers, Sequences, FiniteSets, TLC

VARIABLES
    client,          \* this.client: "null" or "client"
    db,              \* this.db: "null" or "db"
    collections,     \* this.collections: sequence of collection names
    auditCollection, \* this.auditCollection
    transform,       \* this.transform: "null", "redact" or "raises"
    call,            \* the initialize call in flight: [pc, opts, i]
    initCalls,       \* number of initialize calls made so far
    lastInit,        \* how the last initialize call ended
    provLog,         \* the ensurePreImageEnabled calls of the call in flight
    userData,        \* ensurePreImageEnabled's userData (line 66)
    canResult,       \* what canRunCollMod(userData) resolved to (line 72)
    preImage,        \* server: changeStreamPreAndPostImages per collection
    muts,            \* server: the mutations applied to each collection
    feeds,           \* the change streams opened by start, with their handlers
    lastStart,       \* outcome of the last start call
    auditLog,        \* server: inserts applied to the audit collection, in order
    observers,       \* number of listeners registered for 'audit'
    notified,        \* the 'audit' notifications handed to listeners, in order
    crashed,         \* what terminated the Node.js process, if anything did
    now,             \* the wall clock new Date() reads, in milliseconds
    built,           \* the last createAuditDoc call made on its own, if any
    succeeded        \* some initialize call has resolved

vars == <<client, db, collections, auditCollection, transform, call, initCalls,
          lastInit, provLog, userData, canResult, preImage, muts, feeds, lastStart,
          auditLog, observers, notified, crashed, now, built, succeeded>>

(***************************************************************************)
(* Bounds of the model                                                     *)
(***************************************************************************)
MaxInitCalls == 1    \* initialize calls made by the application
MaxFeeds == 2        \* change streams opened over all start calls
MaxEvents == 2       \* mutations applied to the audited collections
MaxDeliveries == 2   \* change notifications delivered over all change streams
MaxObservers == 1    \* listeners registered for 'audit'
MaxArrayLen == 1     \* length of the privilege and role arrays of a user document
MaxClock == 1        \* milliseconds that pass on the wall clock

Colls == {"A", "B"}

RECURSIVE SeqsUpTo(_, _)
SeqsUpTo(S, n) ==
    IF n = 0 THEN {<<>>}
    ELSE LET shorter == SeqsUpTo(S, n - 1)
         IN  shorter \cup {Append(s, x) : s \in {t \in shorter : Len(t) = n - 1}, x \in S}

Range(s) == {s[i] : i \in DOMAIN s}

(***************************************************************************)
(* canRunCollMod (lines 95-143).  A user document is                       *)
(*   [present, inheritedPrivileges, privileges, roles, inheritedRoles];    *)
(* an array-valued field is [isArray, items] (isArray = FALSE: the field   *)
(* is missing); a privilege is [hasActions, actions]; a role is [role].    *)
(***************************************************************************)
Actions == {"find", "collMod", "anyAction"}
RoleNames == {"read", "dbAdmin", "dbOwner", "root", "atlasAdmin", "dbAdminAnyDatabase"}

AdminRoles == {"dbAdmin", "dbOwner", "root", "atlasAdmin", "dbAdminAnyDatabase"}

Privileges ==
    {[hasActions |-> FALSE, actions |-> {}]}
        \cup {[hasActions |-> TRUE, actions |-> {a}] : a \in Actions}
Roles == {[role |-> r] : r \in RoleNames}

ArrayField(S) ==
    {[isArray |-> FALSE, items |-> <<>>]}
        \cup {[isArray |-> TRUE, items |-> s] : s \in SeqsUpTo(S, MaxArrayLen)}

NoUserData ==
    [present |-> FALSE,
     inheritedPrivileges |-> [isArray |-> FALSE, items |-> <<>>],
     privileges |-> [isArray |-> FALSE, items |-> <<>>],
     roles |-> [isArray |-> FALSE, items |-> <<>>],
     inheritedRoles |-> [isArray |-> FALSE, items |-> <<>>]]

UserDocs ==
    [present : {TRUE},
     inheritedPrivileges : ArrayField(Privileges),
     privileges : ArrayField(Privileges),
     roles : ArrayField(Roles),
     inheritedRoles : ArrayField(Roles)]

\* priv.actions || []
ActionsOf(priv) == IF priv.hasActions THEN priv.actions ELSE {}

\* arr.some(priv => actions.includes("collMod") || actions.includes("anyAction"))
SomeCollModPrivilege(items) ==
    \E i \in DOMAIN items :
        "collMod" \in ActionsOf(items[i]) \/ "anyAction" \in ActionsOf(items[i])

\* userData.roles || []
ItemsOrEmpty(field) == IF field.isArray THEN field.items ELSE <<>>

\* arr.some(role => [...].includes(role.role))
SomeAdminRole(items) == \E i \in DOMAIN items : items[i].role \in AdminRoles

\* The mutant of canRunCollMod that forgets the inheritedRoles fallback.
CanRunCollModNoInheritedRoles(u) ==
    IF ~u.present THEN FALSE
    ELSE IF u.inheritedPrivileges.isArray
            /\ SomeCollModPrivilege(u.inheritedPrivileges.items) THEN TRUE
    ELSE IF u.privileges.isArray /\ SomeCollModPrivilege(u.privileges.items) THEN TRUE
    ELSE IF SomeAdminRole(ItemsOrEmpty(u.roles)) THEN TRUE
    ELSE FALSE

CanRunCollMod(u) ==
    IF ~u.present THEN FALSE
    ELSE IF u.inheritedPrivileges.isArray
            /\ SomeCollModPrivilege(u.inheritedPrivileges.items) THEN TRUE
    ELSE IF u.privileges.isArray /\ SomeCollModPrivilege(u.privileges.items) THEN TRUE
    ELSE IF SomeAdminRole(ItemsOrEmpty(u.roles)) THEN TRUE
    ELSE IF SomeAdminRole(ItemsOrEmpty(u.inheritedRoles)) THEN TRUE
    ELSE FALSE

(***************************************************************************)
(* The MongoDB server as the code sees it                                  *)
(***************************************************************************)
Ops == {"insert", "update", "delete"}
Ids == {7}

\* The option start passes to watch (line 159).
FullDocumentBeforeChange == "required"

\* The change notification the server builds for mutation m: the after-image
\* comes with insert and (fullDocument: "updateLookup") with update, the
\* before-image with update and delete when the collection retained it.
\* wallTime is the server's wall clock when it applied the mutation.
ChangeOf(m) ==
    [operationType |-> m.op,
     fullDocument |-> IF m.op \in {"insert", "update"} THEN "new" ELSE "undefined",
     fullDocumentBeforeChange |->
         IF m.op \in {"update", "delete"} /\ m.pre THEN "old" ELSE "undefined",
     documentKey |-> [_id |-> m.id],
     wallTime |-> m.at]

\* With fullDocumentBeforeChange: "required" the server fails the stream at a
\* notification whose before-image it did not retain; with "whenAvailable"
\* it delivers the notification without one.
PreImageMissing(m) ==
    /\ FullDocumentBeforeChange = "required"
    /\ m.op \in {"update", "delete"}
    /\ ~m.pre

(***************************************************************************)
(* createAuditDoc (lines 175-198)                                          *)
(***************************************************************************)
\* x || null
OrNull(x) == IF x \in {"undefined", "null"} THEN "null" ELSE x

\* this.transform(doc): "redact" maps every document to {redacted: true},
\* "raises" throws.
ApplyTransform(t, doc) == IF t = "redact" THEN "redacted" ELSE "THROWN"

\* The mutant of lines 187-188 that hands the transform every image, the
\* absent ones too.
TransformedAlways(img) ==
    IF transform # "null" THEN ApplyTransform(transform, img) ELSE img

\* img && this.transform ? this.transform(img) : img
Transformed(img) ==
    IF img # "null" /\ transform # "null" THEN ApplyTransform(transform, img) ELSE img

NoDoc ==
    [collection |-> "", documentId |-> 0, operation |-> "", timestamp |-> 0,
     before |-> "null", after |-> "null"]

\* The mutant of createAuditDoc that stamps the record with the time of the
\* mutation instead of reading the clock.
CreateAuditDocMutationTime(change, collectionName) ==
    LET before == OrNull(change.fullDocumentBeforeChange)
        after == OrNull(change.fullDocument)
        transformedBefore == Transformed(before)
        transformedAfter == Transformed(after)
    IN  IF transformedBefore = "THROWN" \/ transformedAfter = "THROWN"
        THEN [threw |-> TRUE, doc |-> NoDoc]
        ELSE [threw |-> FALSE,
              doc |-> [collection |-> collectionName,
                       documentId |-> change.documentKey._id,
                       operation |-> change.operationType,
                       timestamp |-> change.wallTime,
                       before |-> transformedBefore,
                       after |-> transformedAfter]]

\* timestamp: new Date() (line 194) reads the wall clock.
CreateAuditDoc(change, collectionName) ==
    LET before == OrNull(change.fullDocumentBeforeChange)
        after == OrNull(change.fullDocument)
        transformedBefore == Transformed(before)
        transformedAfter == Transformed(after)
    IN  IF transformedBefore = "THROWN" \/ transformedAfter = "THROWN"
        THEN [threw |-> TRUE, doc |-> NoDoc]
        ELSE [threw |-> FALSE,
              doc |-> [collection |-> collectionName,
                       documentId |-> change.documentKey._id,
                       operation |-> change.operationType,
                       timestamp |-> now,
                       before |-> transformedBefore,
                       after |-> transformedAfter]]

\* No createAuditDoc call was made on its own yet.
NotBuilt ==
    [made |-> FALSE, at |-> 0, coll |-> "",
     change |-> ChangeOf([op |-> "", id |-> 0, pre |-> FALSE, at |-> 0]),
     res |-> [threw |-> FALSE, doc |-> NoDoc]]

(***************************************************************************)
(* The Node.js runtime: what becomes of a rejection nobody handles (the    *)
(* async change handler has no catch and emit drops its promise) and of    *)
(* an 'error' event nobody listens to (start registers no 'error'          *)
(* listener).  The process is terminated unless the host application       *)
(* installed a process-level handler.                                      *)
(***************************************************************************)
FaultOutcomes == {"logged", "crash"}

NotCrashed == [by |-> "none", coll |-> ""]

alive == crashed.by = "none"

\* The process after a fault of kind `by` in a stream or handler of
\* collection `coll`.
AfterFault(outcome, by, coll) ==
    IF outcome = "crash" THEN [by |-> by, coll |-> coll] ELSE crashed

(***************************************************************************)
(* Initial state: the constructor (lines 5-12), an untouched server.       *)
(***************************************************************************)
Attempt(collName) == [coll |-> collName, principal |-> "pending"]

IdleCall ==
    [pc |-> "idle",
     opts |-> [uri |-> "", listed |-> FALSE, collections |-> <<>>,
               auditCollection |-> "", transform |-> "undefined"],
     i |-> 0]

Init ==
    /\ client = "null"
    /\ db = "null"
    /\ collections = <<>>
    /\ auditCollection = "audit_logs"
    /\ transform = "null"
    /\ call = IdleCall
    /\ initCalls = 0
    /\ lastInit = "none"
    /\ provLog = <<>>
    /\ userData = NoUserData
    /\ canResult = "none"
    /\ preImage = [c \in Colls |-> FALSE]
    /\ muts = [c \in Colls |-> <<>>]
    /\ feeds = <<>>
    /\ lastStart = "none"
    /\ auditLog = <<>>
    /\ observers = 0
    /\ notified = <<>>
    /\ crashed = NotCrashed
    /\ now = 0
    /\ built = NotBuilt
    /\ succeeded = FALSE

fields == <<client, db, collections, auditCollection, transform>>
server == <<preImage, muts>>
sink == <<auditLog, observers, notified>>
aux == <<now, built, succeeded>>

(***************************************************************************)
(* initialize (lines 22-42)                                                *)
(***************************************************************************)
\* listed = FALSE: the options carry no collections property.
Options(uri, colls, auditColl, fn) ==
    [uri |-> uri, listed |-> TRUE, collections |-> colls,
     auditCollection |-> auditColl, transform |-> fn]

OptionsWithoutCollections(uri) ==
    [uri |-> uri, listed |-> FALSE, collections |-> <<>>,
     auditCollection |-> "", transform |-> "undefined"]

\* The options the application passes: three calls that are refused, one
\* collection with no transform or with a raising one, two collections
\* with a named destination and a redacting transform, and a list that
\* names a collection twice.
InitOptions ==
    {Options("", <<"A">>, "", "undefined"),
     OptionsWithoutCollections("mongodb://host/app"),
     Options("mongodb://host/app", <<>>, "", "undefined"),
     Options("mongodb://host/app", <<"A">>, "", "undefined"),
     Options("mongodb://host/app", <<"A", "B">>, "audit_trail", "redact"),
     Options("mongodb://host/app", <<"A">>, "", "raises"),
     Options("mongodb://host/app", <<"A", "A">>, "", "undefined")}

\* JavaScript truthiness of the option values used here.
Truthy(x) == x \notin {"", "undefined", "null"}

\* The mutant of initialize that creates the client before it validates
\* the options.
InitializeCallClientFirst(o) ==
    /\ alive
    /\ call.pc = "idle"
    /\ initCalls' = initCalls + 1
    /\ client' = "client"
    /\ IF ~Truthy(o.uri) \/ ~o.listed \/ Len(o.collections) = 0
       THEN /\ lastInit' = "threwConfig"
            /\ UNCHANGED call
       ELSE /\ call' = [pc |-> "connecting", opts |-> o, i |-> 0]
            /\ lastInit' = "running"
    /\ UNCHANGED <<aux, db, collections, auditCollection, transform, provLog, userData,
                   canResult, server, feeds, lastStart, sink, crashed>>

\* The options are validated (lines 24-26) and the client is created;
\* connect is awaited.
InitializeCall(o) ==
    /\ alive
    /\ call.pc = "idle"
    /\ initCalls' = initCalls + 1
    /\ IF ~Truthy(o.uri) \/ ~o.listed \/ Len(o.collections) = 0
       THEN /\ lastInit' = "threwConfig"
            /\ UNCHANGED <<client, call>>
       ELSE /\ client' = "client"
            /\ call' = [pc |-> "connecting", opts |-> o, i |-> 0]
            /\ lastInit' = "running"
    /\ UNCHANGED <<aux, db, collections, auditCollection, transform, provLog, userData,
                   canResult, server, feeds, lastStart, sink, crashed>>

\* connect rejects: initialize rejects with this.db still unset.
ConnectFails ==
    /\ alive
    /\ call.pc = "connecting"
    /\ call' = IdleCall
    /\ lastInit' = "threwConnect"
    /\ UNCHANGED <<aux, fields, initCalls, provLog, userData, canResult, server, feeds,
                   lastStart, sink, crashed>>

\* connect resolves: lines 30-33, then the first ensurePreImageEnabled call,
\* which issues connectionStatus.
ConnectDone ==
    /\ alive
    /\ call.pc = "connecting"
    /\ db' = "db"
    /\ collections' = call.opts.collections
    /\ auditCollection' =
           IF Truthy(call.opts.auditCollection) THEN call.opts.auditCollection
           ELSE auditCollection
    /\ transform' =
           IF Truthy(call.opts.transform) THEN call.opts.transform ELSE transform
    /\ call' = [call EXCEPT !.pc = "connectionStatus", !.i = 1]
    /\ provLog' = <<Attempt(call.opts.collections[1])>>
    /\ UNCHANGED <<aux, client, initCalls, lastInit, userData, canResult, server, feeds,
                   lastStart, sink, crashed>>

(***************************************************************************)
(* ensurePreImageEnabled (lines 47-88) inside the loop of lines 38-40.     *)
(* provLog has one entry [coll, principal] per ensurePreImageEnabled call  *)
(* of the last initialize call that got to the loop and did not throw:     *)
(* the collection, and how the lookup of the principal ended ("pending",   *)
(* "none": connectionStatus listed no user, "unregistered": usersInfo      *)
(* returned no entry, "resolved").                                         *)
(***************************************************************************)
\* An awaited command rejects, or the destructuring of its reply throws:
\* nothing catches it, so ensurePreImageEnabled and initialize reject.
ProvisionThrows ==
    /\ call' = IdleCall
    /\ lastInit' = "threwProvision"
    /\ provLog' = <<>>
    /\ userData' = NoUserData
    /\ canResult' = "none"
    /\ UNCHANGED succeeded

\* ensurePreImageEnabled returns, the lookup of the principal having ended
\* as `principal`: the loop goes on to the next collection, or initialize
\* resolves.
ProvisionReturns(principal) ==
    /\ userData' = NoUserData
    /\ canResult' = "none"
    /\ IF call.i < Len(call.opts.collections)
       THEN /\ call' = [call EXCEPT !.pc = "connectionStatus", !.i = call.i + 1]
            /\ provLog' = Append([provLog EXCEPT ![call.i].principal = principal],
                                 Attempt(call.opts.collections[call.i + 1]))
            /\ UNCHANGED <<lastInit, succeeded>>
       ELSE /\ call' = IdleCall
            /\ provLog' = [provLog EXCEPT ![call.i].principal = principal]
            /\ lastInit' = "ok"
            /\ succeeded' = TRUE

ConnectionStatusReplies == {"rejects", "noAuthInfo", "noUser", "user"}

\* The mutant of lines 53-56 that goes on to collMod when connectionStatus
\* lists no authenticated user.
ConnectionStatusDoneNoReturn(reply) ==
    /\ alive
    /\ call.pc = "connectionStatus"
    /\ CASE reply \in {"rejects", "noAuthInfo"} -> ProvisionThrows
         [] reply = "noUser" ->
                /\ call' = [call EXCEPT !.pc = "collMod"]
                /\ provLog' = [provLog EXCEPT ![call.i].principal = "none"]
                /\ UNCHANGED <<lastInit, userData, canResult, succeeded>>
         [] reply = "user" ->
                /\ call' = [call EXCEPT !.pc = "usersInfo"]
                /\ UNCHANGED <<provLog, lastInit, userData, canResult, succeeded>>
    /\ UNCHANGED <<now, built, fields, initCalls, server, feeds, lastStart, sink, crashed>>

\* The connectionStatus command settles (lines 49-58): it rejects, its reply
\* has no authInfo (reading authenticatedUsers throws), it lists no
\* authenticated user, or it lists one and usersInfo is issued.
ConnectionStatusDone(reply) ==
    /\ alive
    /\ call.pc = "connectionStatus"
    /\ CASE reply \in {"rejects", "noAuthInfo"} -> ProvisionThrows
         [] reply = "noUser" -> ProvisionReturns("none")
         [] reply = "user" ->
                /\ call' = [call EXCEPT !.pc = "usersInfo"]
                /\ UNCHANGED <<provLog, lastInit, userData, canResult, succeeded>>
    /\ UNCHANGED <<now, built, fields, initCalls, server, feeds, lastStart, sink, crashed>>

PlainUser ==
    [present |-> TRUE,
     inheritedPrivileges |-> [isArray |-> TRUE, items |-> <<>>],
     privileges |-> [isArray |-> TRUE, items |-> <<>>],
     roles |-> [isArray |-> TRUE, items |-> <<[role |-> "read"]>>],
     inheritedRoles |-> [isArray |-> TRUE, items |-> <<>>]]

AdminUser == [PlainUser EXCEPT !.roles.items = <<[role |-> "dbAdmin"]>>]

ConnectedUsers == {PlainUser, AdminUser}

BoolName(b) == IF b THEN "true" ELSE "false"

\* The usersInfo command rejects (line 61).
UsersInfoFails ==
    /\ alive
    /\ call.pc = "usersInfo"
    /\ ProvisionThrows
    /\ UNCHANGED <<now, built, fields, initCalls, server, feeds, lastStart, sink, crashed>>

\* usersInfo names no such user (lines 66-70).
UsersInfoEmpty ==
    /\ alive
    /\ call.pc = "usersInfo"
    /\ ProvisionReturns("unregistered")
    /\ UNCHANGED <<now, built, fields, initCalls, server, feeds, lastStart, sink, crashed>>

\* usersInfo returns the user document u: canRunCollMod(u) is awaited and
\* what it resolves to is dropped (line 72); collMod is issued after it
\* (lines 76-81).
UsersInfoDone(u) ==
    /\ alive
    /\ call.pc = "usersInfo"
    /\ userData' = u
    /\ canResult' = BoolName(CanRunCollMod(u))
    /\ call' = [call EXCEPT !.pc = "collMod"]
    /\ UNCHANGED <<aux, fields, initCalls, lastInit, provLog, server, feeds, lastStart,
                   sink, crashed>>

\* collMod settles; a rejection is caught and logged (lines 82-87).
CollModDone(ok) ==
    /\ alive
    /\ call.pc = "collMod"
    /\ preImage' =
           IF ok THEN [preImage EXCEPT ![call.opts.collections[call.i]] = TRUE]
           ELSE preImage
    /\ ProvisionReturns("resolved")
    /\ UNCHANGED <<now, built, fields, initCalls, muts, feeds, lastStart, sink, crashed>>

(***************************************************************************)
(* start (lines 150-170).  A feed is [coll, fault, from, h]: the collection *)
(* watched, "none" or what ended the stream, the number of mutations that  *)
(* preceded the watch, and one handler [pc, doc, into] per notification    *)
(* delivered so far.                                                       *)
(***************************************************************************)
NewFeed(collName) ==
    [coll |-> collName, fault |-> "none", from |-> Len(muts[collName]), h |-> <<>>]

\* start has no await: the check of this.db and the whole loop run in one step.
Start ==
    /\ alive
    /\ IF db = "null"
       THEN /\ lastStart' = "threw"
            /\ UNCHANGED feeds
       ELSE /\ Len(feeds) + Len(collections) <= MaxFeeds
            /\ feeds' = feeds \o [i \in 1..Len(collections) |-> NewFeed(collections[i])]
            /\ lastStart' = "ok"
    /\ UNCHANGED <<aux, fields, call, initCalls, lastInit, provLog, userData, canResult,
                   server, sink, crashed>>

\* The application registers a listener: on("audit", ...).
RegisterObserver ==
    /\ alive
    /\ observers < MaxObservers
    /\ observers' = observers + 1
    /\ UNCHANGED <<aux, fields, call, initCalls, lastInit, provLog, userData, canResult,
                   server, feeds, lastStart, auditLog, notified, crashed>>

Events == Len(muts["A"]) + Len(muts["B"])

Watched(c) == \E f \in DOMAIN feeds : feeds[f].coll = c

\* The server accepts mutation op of document id of collection c: after a
\* recorded insert or update the document exists, so it can be updated or
\* deleted; after a recorded delete it can only be inserted.  Whether it
\* existed before the first recorded mutation is not known.
Possible(c, op, id) ==
    LET earlier == {e \in DOMAIN muts[c] : muts[c][e].id = id}
        last == CHOOSE e \in earlier : \A d \in earlier : d <= e
    IN  IF earlier = {} THEN TRUE
        ELSE IF muts[c][last].op = "delete" THEN op = "insert"
        ELSE op \in {"update", "delete"}

\* Some client of the database mutates a document of a watched collection.
Mutate(c, op, id) ==
    /\ Watched(c)
    /\ Events < MaxEvents
    /\ Possible(c, op, id)
    /\ muts' = [muts EXCEPT
                   ![c] = Append(@, [op |-> op, id |-> id, pre |-> preImage[c], at |-> now])]
    /\ UNCHANGED <<aux, fields, call, initCalls, lastInit, provLog, userData, canResult,
                   preImage, feeds, lastStart, sink, crashed>>

Running(f) == alive /\ feeds[f].fault = "none"

RECURSIVE DeliveriesUpTo(_)
DeliveriesUpTo(n) == IF n = 0 THEN 0 ELSE Len(feeds[n].h) + DeliveriesUpTo(n - 1)

Deliveries == DeliveriesUpTo(Len(feeds))

\* The index, among the mutations of the feed's collection, of the mutation
\* behind the k-th notification of feed f.
EventOf(f, k) == feeds[f].from + k

HasNext(f) ==
    /\ EventOf(f, Len(feeds[f].h)) < Len(muts[feeds[f].coll])
    /\ Deliveries < MaxDeliveries

NextMutation(f) == muts[feeds[f].coll][EventOf(f, Len(feeds[f].h)) + 1]

Handler(pc, doc) == [pc |-> pc, doc |-> doc, into |-> auditCollection]

\* The mutant of start whose listeners share one loop variable (var in
\* place of const): every listener sees the last collection of the list.
CollNameShared(f) == collections[Len(collections)]

\* collName as the listener of feed f sees it: the const of the for...of
\* loop (line 153) is bound once per iteration and the listener closes
\* over that binding.
CollName(f) == feeds[f].coll

\* The stream emits 'change' (lines 162-164): createAuditDoc builds the
\* record and insertOne is issued; the handler then awaits the insert.
Change(f) ==
    /\ Running(f)
    /\ HasNext(f)
    /\ ~PreImageMissing(NextMutation(f))
    /\ LET auditDoc == CreateAuditDoc(ChangeOf(NextMutation(f)), CollName(f))
       IN  /\ ~auditDoc.threw
           /\ feeds' = [feeds EXCEPT ![f].h = Append(@, Handler("inserting", auditDoc.doc))]
    /\ UNCHANGED <<aux, fields, call, initCalls, lastInit, provLog, userData, canResult,
                   server, lastStart, sink, crashed>>

\* The stream emits 'change' and the transform throws inside createAuditDoc
\* (lines 187-188): the handler's promise rejects and nothing handles it.
ChangeTransformRaises(f, outcome) ==
    /\ Running(f)
    /\ HasNext(f)
    /\ ~PreImageMissing(NextMutation(f))
    /\ CreateAuditDoc(ChangeOf(NextMutation(f)), CollName(f)).threw
    /\ feeds' = [feeds EXCEPT ![f].h = Append(@, Handler("threw", NoDoc))]
    /\ crashed' = AfterFault(outcome, "transform", feeds[f].coll)
    /\ UNCHANGED <<aux, fields, call, initCalls, lastInit, provLog, userData, canResult,
                   server, lastStart, sink>>

\* The server fails the stream because the before-image it was required to
\* attach was not retained: the stream emits 'error' and closes.
ChangePreImageError(f, outcome) ==
    /\ Running(f)
    /\ HasNext(f)
    /\ PreImageMissing(NextMutation(f))
    /\ feeds' = [feeds EXCEPT ![f].fault = "preImage"]
    /\ crashed' = AfterFault(outcome, "preImage", feeds[f].coll)
    /\ UNCHANGED <<aux, fields, call, initCalls, lastInit, provLog, userData, canResult,
                   server, lastStart, sink>>

\* The stream fails for another reason (connection lost, cursor killed).
FeedError(f, outcome) ==
    /\ Running(f)
    /\ feeds' = [feeds EXCEPT ![f].fault = "error"]
    /\ crashed' = AfterFault(outcome, "feedError", feeds[f].coll)
    /\ UNCHANGED <<aux, fields, call, initCalls, lastInit, provLog, userData, canResult,
                   server, lastStart, sink>>

Entry(f, k) ==
    [into |-> feeds[f].h[k].into, doc |-> feeds[f].h[k].doc, feed |-> f,
     ev |-> EventOf(f, k)]

\* The server applies the insert of the k-th handler of feed f.  Inserts in
\* flight at once travel on separate pooled connections, so the server
\* applies them in any order.
InsertCommit(f, k) ==
    /\ alive
    /\ feeds[f].h[k].pc = "inserting"
    /\ feeds' = [feeds EXCEPT ![f].h[k].pc = "committed"]
    /\ auditLog' = Append(auditLog, Entry(f, k))
    /\ UNCHANGED <<aux, fields, call, initCalls, lastInit, provLog, userData, canResult,
                   server, lastStart, observers, notified, crashed>>

\* insertOne rejects (line 164): the handler's promise rejects and nothing
\* handles it.
InsertFail(f, k, outcome) ==
    /\ alive
    /\ feeds[f].h[k].pc = "inserting"
    /\ feeds' = [feeds EXCEPT ![f].h[k].pc = "insertFailed"]
    /\ crashed' = AfterFault(outcome, "insert", feeds[f].coll)
    /\ UNCHANGED <<aux, fields, call, initCalls, lastInit, provLog, userData, canResult,
                   server, lastStart, sink>>

\* The mutant of the handler that does not await insertOne before it emits.
EmitsNoAwait(f, k) == feeds[f].h[k].pc \in {"inserting", "committed"}

\* The handler gets to line 165 once the awaited insertOne has resolved.
Emits(f, k) == feeds[f].h[k].pc = "committed"

\* The handler resumes and emits 'audit' (line 165): every registered
\* listener is called with the record, synchronously.
InsertAck(f, k) ==
    /\ alive
    /\ Emits(f, k)
    /\ feeds' = [feeds EXCEPT ![f].h[k].pc = "done"]
    /\ notified' = notified \o [o \in 1..observers |-> [obs |-> o, rec |-> Entry(f, k)]]
    /\ UNCHANGED <<aux, fields, call, initCalls, lastInit, provLog, userData, canResult,
                   server, lastStart, auditLog, observers, crashed>>

\* A millisecond passes on the wall clock.
Tick ==
    /\ now < MaxClock
    /\ now' = now + 1
    /\ UNCHANGED <<fields, call, initCalls, lastInit, provLog, userData, canResult,
                   server, feeds, lastStart, sink, crashed, built, succeeded>>

\* The whole AuditManager with the wall clock standing still: no step of
\* the code reads a timestamp back, so the clock moves only in the
\* specifications of the claims about timestamps (SpecBuild, SpecClock).
Next ==
    \/ initCalls < MaxInitCalls /\ \E o \in InitOptions : InitializeCall(o)
    \/ ConnectFails
    \/ ConnectDone
    \/ \E reply \in ConnectionStatusReplies : ConnectionStatusDone(reply)
    \/ UsersInfoFails
    \/ UsersInfoEmpty
    \/ \E u \in ConnectedUsers : UsersInfoDone(u)
    \/ \E ok \in BOOLEAN : CollModDone(ok)
    \/ Start
    \/ RegisterObserver
    \/ \E c \in Colls, op \in Ops, id \in Ids : Mutate(c, op, id)
    \/ \E f \in DOMAIN feeds : Change(f)
    \/ \E f \in DOMAIN feeds, outcome \in FaultOutcomes : ChangeTransformRaises(f, outcome)
    \/ \E f \in DOMAIN feeds, outcome \in FaultOutcomes : ChangePreImageError(f, outcome)
    \/ \E f \in DOMAIN feeds, outcome \in FaultOutcomes : FeedError(f, outcome)
    \/ \E f \in DOMAIN feeds : \E k \in DOMAIN feeds[f].h : InsertCommit(f, k)
    \/ \E f \in DOMAIN feeds, outcome \in FaultOutcomes :
           \E k \in DOMAIN feeds[f].h : InsertFail(f, k, outcome)
    \/ \E f \in DOMAIN feeds : \E k \in DOMAIN feeds[f].h : InsertAck(f, k)

Spec == Init /\ [][Next]_vars

(***************************************************************************)
(* canRunCollMod called on its own: it is a public method of the exported  *)
(* class, and a pure function of its argument.  The argument ranges over   *)
(* every user document within MaxArrayLen, and the absent one.             *)
(***************************************************************************)
CanRunCollModCall ==
    /\ canResult = "none"
    /\ canResult' = BoolName(CanRunCollMod(userData))
    /\ UNCHANGED <<aux, fields, call, initCalls, lastInit, provLog, userData, server,
                   feeds, lastStart, sink, crashed>>

InitPerm ==
    /\ client = "null"
    /\ db = "null"
    /\ collections = <<>>
    /\ auditCollection = "audit_logs"
    /\ transform = "null"
    /\ call = IdleCall
    /\ initCalls = 0
    /\ lastInit = "none"
    /\ provLog = <<>>
    /\ userData \in UserDocs \cup {NoUserData}
    /\ canResult = "none"
    /\ preImage = [c \in Colls |-> FALSE]
    /\ muts = [c \in Colls |-> <<>>]
    /\ feeds = <<>>
    /\ lastStart = "none"
    /\ auditLog = <<>>
    /\ observers = 0
    /\ notified = <<>>
    /\ crashed = NotCrashed
    /\ now = 0
    /\ built = NotBuilt
    /\ succeeded = FALSE

NextPerm == CanRunCollModCall

SpecPerm == InitPerm /\ [][NextPerm]_vars

(***************************************************************************)
(* createAuditDoc called on its own: it is a public method too, and a      *)
(* function of the notification, the collection name, this.transform and   *)
(* the clock.  The transform ranges over none, a redacting one and a       *)
(* raising one; the notification over every operation with each image      *)
(* present or absent.                                                      *)
(***************************************************************************)
Transforms == {"null", "redact", "raises"}

Changes ==
    {ChangeOf([op |-> op, id |-> id, pre |-> pre, at |-> t]) :
        op \in Ops, id \in Ids, pre \in BOOLEAN, t \in 0..now}

CreateAuditDocCall(change, collectionName) ==
    /\ built' = [made |-> TRUE, at |-> now, coll |-> collectionName, change |-> change,
                 res |-> CreateAuditDoc(change, collectionName)]
    /\ UNCHANGED <<fields, call, initCalls, lastInit, provLog, userData, canResult,
                   server, feeds, lastStart, sink, crashed, now, succeeded>>

InitBuild ==
    /\ client = "null"
    /\ db = "null"
    /\ collections = <<>>
    /\ auditCollection = "audit_logs"
    /\ transform \in Transforms
    /\ call = IdleCall
    /\ initCalls = 0
    /\ lastInit = "none"
    /\ provLog = <<>>
    /\ userData = NoUserData
    /\ canResult = "none"
    /\ preImage = [c \in Colls |-> FALSE]
    /\ muts = [c \in Colls |-> <<>>]
    /\ feeds = <<>>
    /\ lastStart = "none"
    /\ auditLog = <<>>
    /\ observers = 0
    /\ notified = <<>>
    /\ crashed = NotCrashed
    /\ now = 0
    /\ built = NotBuilt
    /\ succeeded = FALSE

NextBuild ==
    \/ \E change \in Changes, c \in Colls : CreateAuditDocCall(change, c)
    \/ Tick

SpecBuild == InitBuild /\ [][NextBuild]_vars

(***************************************************************************)
(* initialize and start alone, for the claims about the order of the two   *)
(* and about a second initialize call: the application makes up to         *)
(* MaxProvCalls initialize calls and no collection is mutated.             *)
(***************************************************************************)
MaxProvCalls == 2

NextProv ==
    \/ initCalls < MaxProvCalls /\ \E o \in InitOptions : InitializeCall(o)
    \/ ConnectFails
    \/ ConnectDone
    \/ \E reply \in ConnectionStatusReplies : ConnectionStatusDone(reply)
    \/ UsersInfoFails
    \/ UsersInfoEmpty
    \/ \E u \in ConnectedUsers : UsersInfoDone(u)
    \/ \E ok \in BOOLEAN : CollModDone(ok)
    \/ Start

SpecProv == Init /\ [][NextProv]_vars

(***************************************************************************)
(* The path from initialize to the committed records while the wall clock  *)
(* moves, for the claims about the timestamps of committed records: the    *)
(* steps of Spec without the faults of the pipeline and without listeners. *)
(***************************************************************************)
NextClock ==
    \/ initCalls < MaxInitCalls /\ \E o \in InitOptions : InitializeCall(o)
    \/ ConnectDone
    \/ \E reply \in ConnectionStatusReplies : ConnectionStatusDone(reply)
    \/ \E u \in ConnectedUsers : UsersInfoDone(u)
    \/ \E ok \in BOOLEAN : CollModDone(ok)
    \/ Start
    \/ \E c \in Colls, op \in Ops, id \in Ids : Mutate(c, op, id)
    \/ \E f \in DOMAIN feeds : Change(f)
    \/ \E f \in DOMAIN feeds : \E k \in DOMAIN feeds[f].h : InsertCommit(f, k)
    \/ Tick

SpecClock == Init /\ [][NextClock]_vars

(***************************************************************************)
(* The claims                                                              *)
(***************************************************************************)
FeedsOf(c) == {f \in DOMAIN feeds : feeds[f].coll = c}

HandlersOf(f) == DOMAIN feeds[f].h

\* The positions of the audit collection that hold the record of the k-th
\* notification of feed f.
CommitsOf(f, k) ==
    {i \in DOMAIN auditLog : auditLog[i].feed = f /\ auditLog[i].ev = EventOf(f, k)}

\* The notifications that carry the record of the k-th notification of feed f.
NotificationsOf(f, k) ==
    {n \in DOMAIN notified :
        notified[n].rec.feed = f /\ notified[n].rec.ev = EventOf(f, k)}

\* The last initialize call has resolved.
Initialized == lastInit = "ok"

\* C1: after a successful initialize, the records of one feed are committed
\* to the audit collection in the order in which the feed delivered their
\* notifications.
CommitOrderPerFeed ==
    Initialized =>
        \A i, j \in DOMAIN auditLog :
            (i < j /\ auditLog[i].feed = auditLog[j].feed)
                => auditLog[i].ev < auditLog[j].ev

\* C2: a record that was notified is in the audit collection, and a handler
\* whose insert has not completed, or has failed, has notified nothing.
PersistBeforeNotify ==
    /\ \A n \in DOMAIN notified : \E i \in DOMAIN auditLog : auditLog[i] = notified[n].rec
    /\ \A f \in DOMAIN feeds : \A k \in HandlersOf(f) :
           feeds[f].h[k].pc \in {"inserting", "insertFailed", "threw"}
               => NotificationsOf(f, k) = {}

\* C2 happens: one record was committed and notified to a listener, and the
\* insert of another one failed.
PersistBeforeNotifyWitness ==
    /\ notified # <<>>
    /\ \E f \in DOMAIN feeds : \E k \in HandlersOf(f) : feeds[f].h[k].pc = "insertFailed"

\* C3: an initialize call whose options were valid and whose connect
\* succeeded does not end by throwing, however provisioning went.
NonFatalProvisioning == lastInit # "threwProvision"

Grants(u) ==
    /\ u.present
    /\ \/ \E p \in Range(u.inheritedPrivileges.items) \cup Range(u.privileges.items) :
              p.actions \cap {"collMod", "anyAction"} # {}
       \/ \E r \in Range(u.roles.items) \cup Range(u.inheritedRoles.items) :
              r.role \in {"dbAdmin", "dbOwner", "root", "atlasAdmin", "dbAdminAnyDatabase"}

\* C5: canRunCollMod resolves to true exactly for the user documents that
\* hold such a privilege or role, and to false for an absent document.
CanElevateCorrect ==
    canResult # "none" => (canResult = "true" <=> Grants(userData))

\* C5 happens: canRunCollMod has resolved to true for a user document whose
\* only grant is an inherited administrative role.
CanElevateWitness ==
    /\ canResult = "true"
    /\ userData.inheritedPrivileges.items = <<>>
    /\ userData.privileges.items = <<>>
    /\ userData.roles.items = <<>>
    /\ userData.inheritedRoles.items # <<>>

\* C6: after a successful initialize, a transform that raises for one
\* notification commits no record for it and does not end the subscription.
TransformFailureIsolated ==
    Initialized =>
        /\ crashed.by # "transform"
        /\ \A f \in DOMAIN feeds : \A k \in HandlersOf(f) :
               feeds[f].h[k].pc = "threw" => CommitsOf(f, k) = {}

\* C7: after a successful initialize, a fault in the feed or in a handler
\* of one collection does not end a healthy feed of another collection.
CrossCollectionIsolation ==
    Initialized =>
        \A g \in DOMAIN feeds :
            ~(/\ crashed.by # "none"
              /\ feeds[g].coll # crashed.coll
              /\ feeds[g].fault = "none")

\* C8: once initialize has resolved without image retention enabled on a
\* collection, a mutation of it whose before-image was not retained does
\* not fault the feed, and its committed record has before = null.
DegradedStillAudited ==
    Initialized =>
        /\ \A f \in DOMAIN feeds :
               ~preImage[feeds[f].coll] => feeds[f].fault # "preImage"
        /\ \A i \in DOMAIN auditLog :
               ~muts[auditLog[i].doc.collection][auditLog[i].ev].pre
                   => auditLog[i].doc.before = "null"

\* C9: after a successful initialize and any number of start calls, a
\* collection that is watched is watched by exactly one change stream.
OneFeedPerCollection ==
    Initialized => \A c \in Colls : Watched(c) => Cardinality(FeedsOf(c)) = 1

\* C10: after a successful initialize and any number of start calls, a
\* mutation has at most one record in the audit collection, and each
\* listener is notified of it at most once.
ExactlyOncePerEvent ==
    Initialized => \A c \in Colls : \A e \in DOMAIN muts[c] :
        /\ Cardinality({i \in DOMAIN auditLog :
               auditLog[i].doc.collection = c /\ auditLog[i].ev = e}) <= 1
        /\ \A o \in 1..observers :
               Cardinality({n \in DOMAIN notified :
                   /\ notified[n].obs = o
                   /\ notified[n].rec.doc.collection = c
                   /\ notified[n].rec.ev = e}) <= 1

\* C11: an initialize call either is refused, and then no connection is
\* attempted and client, db, collections, auditCollection and transform
\* keep their values, or it goes on to connect, and then its options carry
\* a uri and a non-empty collections list; and while db is null a start
\* call throws and no feed is opened.
FatalConfigurationErrors ==
    [][/\ initCalls' = initCalls + 1 =>
            \/ /\ lastInit' = "threwConfig"
               /\ call' = call
               /\ UNCHANGED <<client, db, collections, auditCollection, transform>>
            \/ /\ call'.pc = "connecting"
               /\ Truthy(call'.opts.uri)
               /\ call'.opts.listed
               /\ call'.opts.collections # <<>>
       /\ db = "null" =>
            /\ feeds' = feeds
            /\ lastStart' # lastStart => lastStart' = "threw"]_vars

\* C11 happens: start has thrown for want of a connection, and an
\* initialize call was refused after another one had set the fields.
FatalConfigurationErrorsWitness ==
    /\ lastStart = "threw"
    /\ lastInit = "threwConfig"
    /\ succeeded
    /\ collections # <<>>
    /\ feeds = <<>>

\* The images of the notification a createAuditDoc call was given.
BeforePresent == built.change.fullDocumentBeforeChange # "undefined"

AfterPresent == built.change.fullDocument # "undefined"

\* C12: with a transform configured, the record holds the transformed
\* image where the notification has one and null where it has none; the
\* transform is not called on an absent image, so a raising transform
\* makes createAuditDoc throw only if some image is present.
TransformIsolation ==
    (built.made /\ transform # "null") =>
        /\ built.res.threw <=> (transform = "raises" /\ (BeforePresent \/ AfterPresent))
        /\ ~built.res.threw =>
               /\ built.res.doc.before = IF BeforePresent THEN "redacted" ELSE "null"
               /\ built.res.doc.after = IF AfterPresent THEN "redacted" ELSE "null"

\* C12 happens: the record of an insert was built under the redacting
\* transform, with before = null and after = {redacted: true}.
TransformIsolationWitness ==
    /\ built.made
    /\ transform = "redact"
    /\ built.change.operationType = "insert"
    /\ built.res.doc.before = "null"
    /\ built.res.doc.after = "redacted"

\* C13: with no transform configured, the record carries the collection
\* name it was built for, the _id of the document key, the operation type
\* as it came, each image or null in its place, and a timestamp that is
\* not earlier than the call.
RecordShape ==
    (built.made /\ transform = "null") =>
        /\ ~built.res.threw
        /\ built.res.doc.collection = built.coll
        /\ built.res.doc.documentId = built.change.documentKey._id
        /\ built.res.doc.operation = built.change.operationType
        /\ built.res.doc.before =
               IF BeforePresent THEN built.change.fullDocumentBeforeChange ELSE "null"
        /\ built.res.doc.after =
               IF AfterPresent THEN built.change.fullDocument ELSE "null"
        /\ built.res.doc.timestamp >= built.at

\* C13 happens: the record of an update with both images was built with
\* no transform, later than the mutation was applied.
RecordShapeWitness ==
    /\ built.made
    /\ transform = "null"
    /\ built.change.operationType = "update"
    /\ BeforePresent
    /\ AfterPresent
    /\ built.change.wallTime < built.at

\* C14: after a successful initialize, each listener is handed the records
\* of one feed in the order in which they were committed to the audit
\* collection.
NotifyInCommitOrder ==
    Initialized =>
        \A m, n \in DOMAIN notified :
            (m < n /\ notified[m].obs = notified[n].obs
                   /\ notified[m].rec.feed = notified[n].rec.feed)
                => \A i, j \in DOMAIN auditLog :
                       (auditLog[i] = notified[m].rec /\ auditLog[j] = notified[n].rec)
                           => i < j

\* C15: once an initialize call has resolved, no step changes
\* this.collections, this.auditCollection or this.transform.
ConfigurationImmutable ==
    [][succeeded => UNCHANGED <<collections, auditCollection, transform>>]_vars

\* C16: after a successful initialize, two records that one feed committed
\* differ in collection, documentId, operation or timestamp.
RecordsUnique ==
    Initialized =>
        \A i, j \in DOMAIN auditLog :
            (i < j /\ auditLog[i].feed = auditLog[j].feed)
                => <<auditLog[i].doc.collection, auditLog[i].doc.documentId,
                     auditLog[i].doc.operation, auditLog[i].doc.timestamp>>
                   # <<auditLog[j].doc.collection, auditLog[j].doc.documentId,
                       auditLog[j].doc.operation, auditLog[j].doc.timestamp>>

\* The step in which the k-th ensurePreImageEnabled call of the initialize
\* call in flight learns that the principal cannot be resolved.
LearnsUnresolved(k) ==
    /\ k \in DOMAIN provLog
    /\ k \in DOMAIN provLog'
    /\ provLog[k].principal = "pending"
    /\ provLog'[k].principal \in {"none", "unregistered"}

\* C17: in the step in which connectionStatus lists no user, or usersInfo
\* returns no entry, ensurePreImageEnabled returns: no permission was or is
\* evaluated, no collMod was or is issued, image retention is as it was,
\* and initialize goes on to the next collection or, after the last one,
\* resolves.
UnresolvedPrincipalSkipped ==
    [][\A k \in 1..Len(provLog) :
           LearnsUnresolved(k) =>
               /\ call.i = k
               /\ call.pc \in {"connectionStatus", "usersInfo"}
               /\ canResult = "none" /\ canResult' = "none"
               /\ call'.pc # "collMod"
               /\ preImage' = preImage
               /\ IF k < Len(call.opts.collections)
                  THEN /\ call' = [call EXCEPT !.pc = "connectionStatus", !.i = k + 1]
                       /\ provLog'[k + 1] = Attempt(call.opts.collections[k + 1])
                       /\ lastInit' = "running"
                  ELSE /\ call'.pc = "idle"
                       /\ lastInit' = "ok"]_vars

\* C17 happens: initialize has resolved for two collections, the first
\* skipped because connectionStatus listed no user and the second because
\* usersInfo returned no entry.
UnresolvedPrincipalSkippedWitness ==
    /\ lastInit = "ok"
    /\ call.pc = "idle"
    /\ Len(provLog) = 2
    /\ provLog[1].principal = "none"
    /\ provLog[2].principal = "unregistered"
    /\ preImage = [c \in Colls |-> FALSE]

Provisioning == call.pc \in {"connectionStatus", "usersInfo", "collMod"}

\* C18: while initialize is in its loop, ensurePreImageEnabled has been
\* called once for each collection up to the current one, in the order of
\* the list, and the earlier calls have finished; and no feed is opened
\* while the loop is running.
PhaseOrdering ==
    [][/\ Provisioning =>
            /\ Len(provLog) = call.i
            /\ \A k \in 1..Len(provLog) :
                   /\ provLog[k].coll = call.opts.collections[k]
                   /\ k < call.i => provLog[k].principal # "pending"
       /\ feeds' # feeds => ~Provisioning]_vars

\* C19: a start call made while no initialize call is in flight opens
\* feeds only if some initialize call has resolved.
StartRequiresInitialize ==
    [][(feeds' # feeds /\ call.pc = "idle") => succeeded]_vars

\* C20: every record that is being inserted or was committed names the
\* collection of the feed whose notification it was built from, and the
\* document and operation of that notification.
SourceAttribution ==
    /\ \A f \in DOMAIN feeds : \A k \in HandlersOf(f) :
           feeds[f].h[k].pc \in {"inserting", "committed", "done", "insertFailed"}
               => /\ feeds[f].h[k].doc.collection = feeds[f].coll
                  /\ feeds[f].h[k].doc.documentId = muts[feeds[f].coll][EventOf(f, k)].id
                  /\ feeds[f].h[k].doc.operation = muts[feeds[f].coll][EventOf(f, k)].op
    /\ \A i \in DOMAIN auditLog :
           /\ auditLog[i].doc.collection = feeds[auditLog[i].feed].coll
           /\ auditLog[i].doc = feeds[auditLog[i].feed].h[auditLog[i].ev
                                     - feeds[auditLog[i].feed].from].doc

\* C20 happens: the feeds of A and B each delivered a notification, and
\* the record of B was committed before the record of A.
SourceAttributionWitness ==
    /\ Len(feeds) = 2
    /\ feeds[1].coll = "A"
    /\ feeds[2].coll = "B"
    /\ Len(auditLog) = 2
    /\ auditLog[1].feed = 2
    /\ auditLog[2].feed = 1

====
